---------------------------- MODULE Spec2Model ----------------------------
(***************************************************************************)
(* The timeline construction engine of auto_editor/timeline.py:            *)
(* merge_chunks, Timeline.end, clipify, make_av and make_timeline.         *)
(*                                                                         *)
(* A chunk is the tuple <<start, end, speed>> (chunk[0], chunk[1],         *)
(* chunk[2] in the source).  A Clip is a record with the fields of the     *)
(* NamedTuple.  Python lists are sequences, so the 0-based source index    *)
(* k and layer index k are the (k+1)-th elements here.                     *)
(*                                                                         *)
(* The cursor `start` is a float in the source.  Every speed of the model  *)
(* is a power of two, so every dur / speed and every sum of them is an     *)
(* exact binary fraction: the float arithmetic of the source is exact on   *)
(* these values and the model keeps a cursor as an integer number of       *)
(* 1/Unit frames.                                                          *)
(***************************************************************************)
EXTENDS Integers, Sequences, FiniteSets

VARIABLES
    inputs,      \* make_timeline: the sources, each its track inventory
    pool,        \* make_timeline: args.pool, the kinds of the overlay specifications
    pc,          \* make_timeline: the position in its body
    i,           \* make_layers: the loop index (number of sources processed)
    start,       \* make_layers: the cursor, in 1/Unit frames
    all_clips,   \* make_layers: one clip list per processed source
    all_chunks,  \* make_layers: one chunk list per processed source
    v,           \* timeline.v
    a,           \* timeline.a
    chunks,      \* timeline.chunks
    vars_end,    \* _vars["end"]
    pool_pos,    \* number of entries of args.pool the parsing loop has read
    objs,        \* make_timeline: the local list `pool` of parsed overlays
    error,       \* the exception make_timeline ended with, or "none"
    call,        \* a direct call of clipify or merge_chunks: its arguments
    ret          \* that call's return value

vars == <<inputs, pool, pc, i, start, all_clips, all_chunks, v, a, chunks,
          vars_end, pool_pos, objs, error, call, ret>>

-----------------------------------------------------------------------------
(* Bounds of the model. *)

\* Direct calls of clipify, and the single source of SpecEnd: the last
\* frame of a chunk sequence and its number of chunks.
MaxFrame == 6
MaxChunks == 3
\* Direct calls of clipify: the starting cursor, in 1/Unit frames.
MaxCursor == 6
\* Number of sources.
MaxSources == 2
\* Audio tracks of a source.
MaxAudios == 2
\* Entries of args.pool.
MaxPool == 2
\* make_timeline over several sources, and merge_chunks: the last frame
\* of a source's chunk sequence and its number of chunks.
MaxLayerFrame == 2
MaxLayerChunks == 2

-----------------------------------------------------------------------------
(* Values. *)

\* The cut sentinel of clipify.
CUT == 99999

\* Playback speeds of retained chunks.
Speeds == {1, 2, 4}

AllSpeeds == Speeds \cup {CUT}

\* The cursor resolution: a cursor value c stands for c / Unit frames.
Unit == CHOOSE u \in Speeds : \A s \in Speeds : u % s = 0

\* dur / speed, in 1/Unit frames.
SpeedAdjusted(dur, speed) == (dur * Unit) \div speed

\* Python's round() of q / Unit for q >= 0: to nearest, ties to even.
Round(q) ==
    LET f == q \div Unit
        r == q % Unit
    IN  IF 2 * r < Unit THEN f
        ELSE IF 2 * r > Unit THEN f + 1
        ELSE IF f % 2 = 0 THEN f ELSE f + 1

Max(x, y) == IF x >= y THEN x ELSE y

Last(s) == s[Len(s)]

-----------------------------------------------------------------------------
(* Chunk sequences as the chunk partitioner produces them: starting at     *)
(* frame 0, contiguous, each range non-empty, adjacent chunks of different *)
(* speeds (a run-length encoding).                                         *)

LastEnd(cs) == IF Len(cs) = 0 THEN 0 ELSE Last(cs)[2]

RECURSIVE ChunkSeqsUpTo(_, _)
ChunkSeqsUpTo(n, marks) ==
    IF n = 0 THEN {<<>>}
    ELSE LET shorter == ChunkSeqsUpTo(n - 1, marks)
         IN  shorter \cup
             UNION { { Append(cs, <<LastEnd(cs), e, sp>>) :
                         e \in {m \in marks : m > LastEnd(cs)},
                         sp \in {s \in AllSpeeds : Len(cs) = 0 \/ s # Last(cs)[3]} } :
                     cs \in {x \in shorter : Len(x) = n - 1} }

-----------------------------------------------------------------------------
(* clipify *)

Clip(s, dur, offset, speed, src) ==
    [start |-> s, dur |-> dur, offset |-> offset, speed |-> speed, src |-> src]

\* Variant of ChunkDur: a later retained chunk loses one frame.
ChunkDurShort(chunk, n) ==
    IF n = 0 THEN chunk[2] - chunk[1] + 1 ELSE chunk[2] - chunk[1] - 1

\* dur of a retained chunk, n the number of chunks retained before it.
ChunkDur(chunk, n) ==
    IF n = 0 THEN chunk[2] - chunk[1] + 1 ELSE chunk[2] - chunk[1]

\* offset of a retained chunk, n the number of chunks retained before it.
ChunkOffset(chunk, n) ==
    IF n = 0 THEN chunk[1] ELSE chunk[1] + 1

\* Variant of Suppressed: no dedup test.
SuppressedNever(clips, cursor) == FALSE

\* Variant of Suppressed: the test reads clips[0] instead of clips[-1].
SuppressedByFirst(clips, cursor) ==
    Len(clips) > 0 /\ clips[1].start = Round(cursor)

\* The clip is not appended: the last clip already starts at round(start).
Suppressed(clips, cursor) ==
    Len(clips) > 0 /\ Last(clips).start = Round(cursor)

\* Variant of ClipifyStep: i counts the cut chunks too.
ClipifyStepRawOrdinal(st, chunk, src) ==
    IF chunk[3] # CUT
    THEN LET dur == ChunkDur(chunk, st.i)
             offset == ChunkOffset(chunk, st.i)
         IN  [clips |-> IF Suppressed(st.clips, st.start)
                        THEN st.clips
                        ELSE Append(st.clips,
                                    Clip(Round(st.start), dur, offset, chunk[3], src)),
              start |-> st.start + SpeedAdjusted(dur, chunk[3]),
              i     |-> st.i + 1]
    ELSE [st EXCEPT !.i = @ + 1]

\* One iteration of the loop of clipify; st holds clips, start and i.
ClipifyStep(st, chunk, src) ==
    IF chunk[3] # CUT
    THEN LET dur == ChunkDur(chunk, st.i)
             offset == ChunkOffset(chunk, st.i)
         IN  [clips |-> IF Suppressed(st.clips, st.start)
                        THEN st.clips
                        ELSE Append(st.clips,
                                    Clip(Round(st.start), dur, offset, chunk[3], src)),
              start |-> st.start + SpeedAdjusted(dur, chunk[3]),
              i     |-> st.i + 1]
    ELSE st

RECURSIVE ClipifyLoop(_, _, _, _)
ClipifyLoop(st, cs, k, src) ==
    IF k > Len(cs) THEN st
    ELSE ClipifyLoop(ClipifyStep(st, cs[k], src), cs, k + 1, src)

\* clipify(chunks, src, start): .clips is the list returned, .start the
\* value of the local cursor when the loop ends.
Clipify(cs, src, cursor) ==
    ClipifyLoop([clips |-> <<>>, start |-> cursor, i |-> 0], cs, 1, src)

-----------------------------------------------------------------------------
(* merge_chunks *)

\* Variant of MergeStep: the shift grows by _chunks[-1][0].
MergeStepLastStart(st, cs) ==
    [chunks |-> st.chunks \o
                [k \in 1 .. Len(cs) |->
                    <<cs[k][1] + st.start, cs[k][2] + st.start, cs[k][3]>>],
     start  |-> IF Len(cs) > 0 THEN st.start + Last(cs)[1] ELSE st.start]

\* One iteration of the outer loop; st holds chunks and start.
MergeStep(st, cs) ==
    [chunks |-> st.chunks \o
                [k \in 1 .. Len(cs) |->
                    <<cs[k][1] + st.start, cs[k][2] + st.start, cs[k][3]>>],
     start  |-> IF Len(cs) > 0 THEN st.start + Last(cs)[2] ELSE st.start]

RECURSIVE MergeLoop(_, _, _)
MergeLoop(st, all, k) ==
    IF k > Len(all) THEN st
    ELSE MergeLoop(MergeStep(st, all[k]), all, k + 1)

MergeChunks(all) == MergeLoop([chunks |-> <<>>, start |-> 0], all, 1).chunks

-----------------------------------------------------------------------------
(* Timeline.end *)

\* round(o.start + o.dur / o.speed) of a VideoObj or AudioObj.
EffectiveEnd(o) == Round(o.start * Unit + SpeedAdjusted(o.dur, o.speed))

\* What one object contributes to end: the branches of lines 81-84, 88.
ObjEnd(o) ==
    IF o.kind \in {"video", "audio"}
    THEN Max(1, EffectiveEnd(o))
    ELSE o.start + o.dur

\* Variant of EndObj: the first object of the layer.
EndObjFirst(layer) == layer[1]

\* The object of a non-empty layer that Timeline.end reads.
EndObj(layer) == Last(layer)

RECURSIVE EndOver(_, _, _)
EndOver(layers, k, end) ==
    IF k > Len(layers) THEN end
    ELSE EndOver(layers, k + 1,
                 IF Len(layers[k]) > 0
                 THEN Max(end, ObjEnd(EndObj(layers[k])))
                 ELSE end)

TimelineEnd(vs, as) == EndOver(as, 1, EndOver(vs, 1, 0))

-----------------------------------------------------------------------------
(* make_av *)

VideoObj(clip, layer) ==
    [kind |-> "video", start |-> clip.start, dur |-> clip.dur,
     offset |-> clip.offset, speed |-> clip.speed, src |-> clip.src,
     layer |-> layer]

AudioObj(clip, layer) ==
    [kind |-> "audio", start |-> clip.start, dur |-> clip.dur,
     offset |-> clip.offset, speed |-> clip.speed, src |-> clip.src,
     layer |-> layer]

\* max_a: the largest number of audio tracks of a source.
RECURSIVE MaxA(_, _)
MaxA(inps, k) ==
    IF k = 0 THEN 0 ELSE Max(MaxA(inps, k - 1), inps[k].audios)

\* Lines 145-150: the body of the loop over the clips of a video source.
AddVideo(vclips, clip) ==
    LET vclip_ == VideoObj(clip, 0)
        vs == IF Len(vclips) = 0 THEN << <<vclip_>> >> ELSE vclips
    IN  [vs EXCEPT ![1] = Append(@, vclip_)]

\* Variant of AddAudio: the last audio track is left out.
AddAudioButLast(aclips, clip, n) ==
    [k \in 1 .. Len(aclips) |->
        IF k < n THEN Append(aclips[k], AudioObj(clip, k - 1)) ELSE aclips[k]]

\* Lines 153-158: the clip goes to the layers of the n audio tracks.
AddAudio(aclips, clip, n) ==
    [k \in 1 .. Len(aclips) |->
        IF k <= n THEN Append(aclips[k], AudioObj(clip, k - 1)) ELSE aclips[k]]

RECURSIVE AddVideos(_, _, _)
AddVideos(vclips, clips, k) ==
    IF k > Len(clips) THEN vclips
    ELSE AddVideos(AddVideo(vclips, clips[k]), clips, k + 1)

RECURSIVE AddAudios(_, _, _, _)
AddAudios(aclips, clips, k, n) ==
    IF k > Len(clips) THEN aclips
    ELSE AddAudios(AddAudio(aclips, clips[k], n), clips, k + 1, n)

\* The loop over zip(all_clips, inputs); st holds vclips and aclips.
RECURSIVE AvLoop(_, _, _, _)
AvLoop(st, clipss, inps, k) ==
    IF k > Len(clipss) \/ k > Len(inps) THEN st
    ELSE AvLoop(
            [v |-> IF inps[k].videos > 0
                   THEN AddVideos(st.v, clipss[k], 1) ELSE st.v,
             a |-> IF inps[k].audios > 0
                   THEN AddAudios(st.a, clipss[k], 1, inps[k].audios) ELSE st.a],
            clipss, inps, k + 1)

MakeAv(clipss, inps) ==
    AvLoop([v |-> <<>>, a |-> [k \in 1 .. MaxA(inps, Len(inps)) |-> <<>>]],
           clipss, inps, 1)

-----------------------------------------------------------------------------
(* make_timeline.  The frame rate and the resolution of lines 172-178 are  *)
(* not part of the state: nothing of the layers depends on them.           *)

\* chunks_len of auto_editor.utils.func: how far the cursor of clipify
\* travels over the chunks, in 1/Unit frames (the cursor one source hands
\* to the next is the final cursor of its clip synthesis).
ChunksLen(cs) == Clipify(cs, 0, 0).start

\* Variant of LayerClips: every source is synthesized from cursor 0.
LayerClipsFromZero(cs, src, cursor) == Clipify(cs, src, 0).clips

\* Line 190: the clips of source src, synthesized against the cursor.
LayerClips(cs, src, cursor) == Clipify(cs, src, cursor).clips

\* The kinds make_timeline has a builder for.
OverlayKinds == {"add_text", "add_rectangle", "add_ellipse", "add_image"}

\* A kind of args.pool that is none of them.
PoolKinds == OverlayKinds \cup {"add_other"}

\* The object parse_dataclass builds: its start and dur are resolved
\* against _vars (start = 0, end = timeline.end).
Overlay(key, end) == [kind |-> key, start |-> 0, dur |-> end]

\* Sequences over S of length at most n.
SeqsUpTo(S, n) == UNION {[1 .. m -> S] : m \in 0 .. n}

Inventories == [videos : 0 .. 1, audios : 0 .. MaxAudios]

InitTimeline(inputsSet, poolSet) ==
    /\ inputs \in inputsSet
    /\ pool \in poolSet
    /\ pc = "make_layers"
    /\ i = 0
    /\ start = 0
    /\ all_clips = <<>>
    /\ all_chunks = <<>>
    /\ v = <<>>
    /\ a = <<>>
    /\ chunks = <<>>
    /\ vars_end = 0
    /\ pool_pos = 0
    /\ objs = <<>>
    /\ error = "none"
    /\ call = [fn |-> "none"]
    /\ ret = [fn |-> "none"]

\* Lines 185-191: one iteration of the loop of make_layers.  The chunk
\* sequence is what chunkify(get_speed_list(...)) returns for source i.
MakeLayersIter(chunkSeqs) ==
    /\ pc = "make_layers"
    /\ i < Len(inputs)
    /\ \E _chunks \in chunkSeqs :
          /\ all_chunks' = Append(all_chunks, _chunks)
          /\ all_clips' = Append(all_clips, LayerClips(_chunks, i, start))
          /\ start' = start + ChunksLen(_chunks)
    /\ i' = i + 1
    /\ UNCHANGED <<inputs, pool, pc, v, a, chunks, vars_end, pool_pos, objs,
                   error, call, ret>>

\* Lines 193-206: make_av, merge_chunks, the Timeline and _vars.
BuildTimeline ==
    /\ pc = "make_layers"
    /\ i = Len(inputs)
    /\ LET av == MakeAv(all_clips, inputs)
       IN  /\ v' = av.v
           /\ a' = av.a
           /\ vars_end' = TimelineEnd(av.v, av.a)
    /\ chunks' = MergeChunks(all_chunks)
    /\ pc' = "pool"
    /\ UNCHANGED <<inputs, pool, i, start, all_clips, all_chunks, pool_pos,
                   objs, error, call, ret>>

\* Lines 209-225: one iteration of the loop over args.pool.  A key that
\* matches none of the four tests appends nothing.  parse_dataclass
\* returns the object or raises.
ParseOverlay ==
    /\ pc = "pool"
    /\ pool_pos < Len(pool)
    /\ LET key == pool[pool_pos + 1]
       IN  \/ /\ key \in OverlayKinds
              /\ objs' = Append(objs, Overlay(key, vars_end))
              /\ pool_pos' = pool_pos + 1
              /\ UNCHANGED <<pc, error>>
           \/ /\ key \in OverlayKinds
              /\ pc' = "failed"
              /\ error' = "VariableResolutionError"
              /\ UNCHANGED <<objs, pool_pos>>
           \/ /\ key \notin OverlayKinds
              /\ pool_pos' = pool_pos + 1
              /\ UNCHANGED <<objs, pc, error>>
    /\ UNCHANGED <<inputs, pool, i, start, all_clips, all_chunks, v, a,
                   chunks, vars_end, call, ret>>

\* Lines 227-232: every parsed overlay becomes a new top layer; return.
AppendOverlays ==
    /\ pc = "pool"
    /\ pool_pos = Len(pool)
    /\ v' = v \o [k \in 1 .. Len(objs) |-> <<objs[k]>>]
    /\ pc' = "done"
    /\ UNCHANGED <<inputs, pool, i, start, all_clips, all_chunks, a, chunks,
                   vars_end, pool_pos, objs, error, call, ret>>

\* Chunk sequences of a source of make_timeline: at least one chunk.
LayerChunkSeqs == ChunkSeqsUpTo(MaxLayerChunks, 1 .. MaxLayerFrame) \ {<<>>}

\* make_timeline, with overlay specifications.
Init == InitTimeline(SeqsUpTo(Inventories, MaxSources), SeqsUpTo(PoolKinds, MaxPool))

Next ==
    \/ MakeLayersIter(LayerChunkSeqs)
    \/ BuildTimeline
    \/ ParseOverlay
    \/ AppendOverlays

Spec == Init /\ [][Next]_vars

\* make_timeline without overlay specifications, every source with one
\* video and one audio track.
InitLayers ==
    InitTimeline(SeqsUpTo({[videos |-> 1, audios |-> 1]}, MaxSources), {<<>>})

NextLayers ==
    \/ MakeLayersIter(LayerChunkSeqs)
    \/ BuildTimeline
    \/ AppendOverlays

SpecLayers == InitLayers /\ [][NextLayers]_vars

\* make_timeline without overlay specifications, over every track
\* inventory.  A source has two frames: it yields one clip, two clips,
\* or none when it is cut.
AvChunkSeqs ==
    {cs \in ChunkSeqsUpTo(2, {1, 2}) :
        /\ Len(cs) > 0
        /\ \/ \A k \in 1 .. Len(cs) : cs[k][3] \in {1, 2}
           \/ cs = << <<0, 2, CUT>> >>}

InitAv == InitTimeline(SeqsUpTo(Inventories, MaxSources), {<<>>})

NextAv ==
    \/ MakeLayersIter(AvChunkSeqs)
    \/ BuildTimeline
    \/ AppendOverlays

SpecAv == InitAv /\ [][NextAv]_vars

\* make_timeline of one source, without overlay specifications.
EndChunkSeqs == ChunkSeqsUpTo(MaxChunks, 1 .. MaxFrame) \ {<<>>}

InitEnd == InitTimeline({<<inv>> : inv \in Inventories}, {<<>>})

NextEnd ==
    \/ MakeLayersIter(EndChunkSeqs)
    \/ BuildTimeline
    \/ AppendOverlays

SpecEnd == InitEnd /\ [][NextEnd]_vars

-----------------------------------------------------------------------------
(* Direct calls *)

NoCall == [fn |-> "none"]

Idle ==
    /\ inputs = <<>> /\ pool = <<>> /\ pc = "idle" /\ i = 0 /\ start = 0
    /\ all_clips = <<>> /\ all_chunks = <<>> /\ v = <<>> /\ a = <<>>
    /\ chunks = <<>> /\ vars_end = 0 /\ pool_pos = 0 /\ objs = <<>>
    /\ error = "none"

timelineVars == <<inputs, pool, pc, i, start, all_clips, all_chunks, v, a,
                  chunks, vars_end, pool_pos, objs, error>>

\* Frames of the chunk sequences handed to clipify directly.
ClipifyMarks == (1 .. MaxFrame) \cup {10, 20}

ClipifyChunkSeqs == ChunkSeqsUpTo(MaxChunks, ClipifyMarks)

InitClipify ==
    /\ Idle
    /\ ret = NoCall
    /\ \E cs \in ClipifyChunkSeqs, src \in 0 .. MaxSources - 1, c \in 0 .. MaxCursor :
          call = [fn |-> "clipify", chunks |-> cs, src |-> src, start |-> c]

CallClipify ==
    /\ call.fn = "clipify"
    /\ ret = NoCall
    /\ LET r == Clipify(call.chunks, call.src, call.start)
       IN  ret' = [fn |-> "clipify", clips |-> r.clips, start |-> r.start]
    /\ UNCHANGED <<call, timelineVars>>

SpecClipify == InitClipify /\ [][CallClipify]_vars


\* Chunk sequences handed to merge_chunks: a source may have none.
MergeChunkSeqs == ChunkSeqsUpTo(MaxLayerChunks, 1 .. MaxLayerFrame)

InitMerge ==
    /\ Idle
    /\ ret = NoCall
    /\ \E all \in SeqsUpTo(MergeChunkSeqs, MaxSources) :
          call = [fn |-> "merge_chunks", all_chunks |-> all]

CallMerge ==
    /\ call.fn = "merge_chunks"
    /\ ret = NoCall
    /\ ret' = [fn |-> "merge_chunks", chunks |-> MergeChunks(call.all_chunks)]
    /\ UNCHANGED <<call, timelineVars>>

SpecMerge == InitMerge /\ [][CallMerge]_vars

-----------------------------------------------------------------------------
(* Properties of clipify, stated on a finished direct call.  The rules are *)
(* written out here from the chunk bounds, independently of ClipifyStep.   *)

Returned == ret.fn = "clipify"

\* The chunks of the call that are not cut, in input order.
Retained == SelectSeq(call.chunks, LAMBDA ch : ch[3] # CUT)

NoCut == \A k \in 1 .. Len(call.chunks) : call.chunks[k][3] # CUT

InclusiveRule(clip, ch) ==
    /\ clip.dur = ch[2] - ch[1] + 1
    /\ clip.offset = ch[1]
    /\ clip.speed = ch[3]

ExclusiveRule(clip, ch) ==
    /\ clip.dur = ch[2] - ch[1]
    /\ clip.offset = ch[1] + 1
    /\ clip.speed = ch[3]

\* The cursor before the n-th retained chunk, 1/Unit frames: the first
\* retained chunk advances it by (end - start + 1) / speed, a later one by
\* (end - start) / speed.
RECURSIVE CursorBefore(_, _, _)
CursorBefore(r, n, cursor) ==
    IF n = 1 THEN cursor
    ELSE LET ch == r[n - 1]
             dur == IF n - 1 = 1 THEN ch[2] - ch[1] + 1 ELSE ch[2] - ch[1]
         IN  CursorBefore(r, n - 1, cursor) + (dur * Unit) \div ch[3]

\* C1: dur and offset follow the ordinal of the chunk among the retained
\* chunks: the first retained chunk is always emitted, with dur = end -
\* start + 1 and offset = start, wherever it stands in the input; every
\* later clip stems from a later retained chunk with dur = end - start and
\* offset = start + 1; and the cursor has advanced by these durations over
\* the speeds, for every retained chunk.
C1_RetainedOrdinal ==
    Returned =>
        /\ Len(Retained) > 0 =>
              /\ Len(ret.clips) > 0
              /\ InclusiveRule(ret.clips[1], Retained[1])
        /\ \A k \in 2 .. Len(ret.clips) :
              \E n \in 2 .. Len(Retained) : ExclusiveRule(ret.clips[k], Retained[n])
        /\ ret.start = CursorBefore(Retained, Len(Retained) + 1, call.start)

\* A cut chunk comes first, and two retained chunks after it gave clips.
C1_Witness ==
    /\ Returned
    /\ Len(call.chunks) >= 3
    /\ call.chunks[1][3] = CUT
    /\ Len(ret.clips) = 2

\* C5 as claimed: without cut ranges, as many clips as chunks.
C5_OneClipPerChunk ==
    (Returned /\ NoCut) => Len(ret.clips) = Len(call.chunks)

\* The output frame the n-th chunk of the call is placed at.
RoundedPos(n) == Round(CursorBefore(call.chunks, n, call.start))

\* C5 (amended): without cut ranges clipify yields at most one clip per
\* chunk, in input order, one for every distinct rounded cursor position:
\* the number of clips is the number of distinct values of round(cursor)
\* over the chunks, and clip k stems from a chunk at or after position k,
\* placed at that chunk's rounded cursor.
C5_OneClipPerPosition ==
    (Returned /\ NoCut) =>
        /\ Len(ret.clips) <= Len(call.chunks)
        /\ Len(ret.clips) = Cardinality({RoundedPos(n) : n \in 1 .. Len(call.chunks)})
        /\ \A k \in 1 .. Len(ret.clips) :
              \E n \in k .. Len(call.chunks) :
                 /\ ret.clips[k].start = RoundedPos(n)
                 /\ ret.clips[k].speed = call.chunks[n][3]
                 /\ ret.clips[k].offset = call.chunks[n][1] + (IF n = 1 THEN 0 ELSE 1)
        /\ \A k \in 1 .. Len(ret.clips) - 1 :
              ret.clips[k].offset < ret.clips[k + 1].offset

\* No chunk is cut, and the dedup rule dropped one of them.
C5_Witness ==
    /\ Returned
    /\ NoCut
    /\ Len(call.chunks) = 3
    /\ Len(ret.clips) = 2

\* C6: the clips of one call have strictly increasing start.
C6_StrictlyIncreasingStart ==
    Returned =>
        \A k \in 1 .. Len(ret.clips) - 1 :
            ret.clips[k].start < ret.clips[k + 1].start

\* A retained chunk between two emitted ones was suppressed, and the call
\* had cut ranges.
C6_Witness ==
    /\ Returned
    /\ ~NoCut
    /\ Len(ret.clips) >= 1
    /\ Len(ret.clips) < Len(Retained)
    /\ call.start > 0

Scenario ==
    /\ Returned
    /\ call.chunks = <<<<0, 10, 1>>, <<10, 20, 2>>>>
    /\ call.src = 0
    /\ call.start = 0

\* C7 as claimed: the second clip has dur 9 and the cursor ends at 15.5.
C7_ScenarioAsClaimed ==
    Scenario =>
        /\ ret.clips = <<Clip(0, 11, 0, 1, 0), Clip(11, 9, 11, 2, 0)>>
        /\ 2 * ret.start = 31 * Unit

\* C7 (amended): clipify of [(0,10,1),(10,20,2)], source 0, cursor 0
\* returns Clip(0,11,0,1,0) then Clip(11,10,11,2,0), and its cursor ends
\* at 11 + 10/2 = 16.
C7_Scenario ==
    Scenario =>
        /\ ret.clips = <<Clip(0, 11, 0, 1, 0), Clip(11, 10, 11, 2, 0)>>
        /\ ret.start = 16 * Unit

C7_Witness == Scenario /\ Len(ret.clips) = 2

-----------------------------------------------------------------------------
(* Properties of merge_chunks, stated on a finished direct call. *)

RECURSIVE RawLength(_, _)
\* The sum of the last-chunk end frames of the first k sources.
RawLength(all, k) ==
    IF k = 0 THEN 0
    ELSE RawLength(all, k - 1) + (IF Len(all[k]) = 0 THEN 0 ELSE all[k][Len(all[k])][2])

RECURSIVE ChunkCount(_, _)
\* The number of chunks of the first k sources.
ChunkCount(all, k) ==
    IF k = 0 THEN 0 ELSE ChunkCount(all, k - 1) + Len(all[k])

\* C9: merge_chunks returns the chunks of all sources in source order,
\* the speeds unchanged, the ranges of a source shifted by the sum of the
\* last-chunk end frames of the earlier sources; the result starts at 0
\* and every later chunk starts where the one before it ends.
C9_MergeContiguous ==
    ret.fn = "merge_chunks" =>
        LET all == call.all_chunks
        IN  /\ Len(ret.chunks) = ChunkCount(all, Len(all))
            /\ \A k \in 1 .. Len(all) : \A n \in 1 .. Len(all[k]) :
                  ret.chunks[ChunkCount(all, k - 1) + n] =
                      <<all[k][n][1] + RawLength(all, k - 1),
                        all[k][n][2] + RawLength(all, k - 1),
                        all[k][n][3]>>
            /\ Len(ret.chunks) > 0 => ret.chunks[1][1] = 0
            /\ \A m \in 2 .. Len(ret.chunks) :
                  ret.chunks[m][1] = ret.chunks[m - 1][2]

\* Chunks of a first source, then chunks of a later one that are shifted.
C9_Witness ==
    /\ ret.fn = "merge_chunks"
    /\ Len(call.all_chunks) = 2
    /\ Len(call.all_chunks[1]) = 2
    /\ Len(call.all_chunks[2]) = 2
    /\ ret.chunks[3][1] = 2

-----------------------------------------------------------------------------
(* Properties of make_av and Timeline.end, stated on make_timeline once    *)
(* the Timeline is built.                                                  *)

Built == pc = "pool" /\ pool_pos = 0

\* The clips of the first k sources that satisfy has, in source order.
RECURSIVE ClipsOf(_, _)
ClipsOf(has(_), k) ==
    IF k = 0 THEN <<>>
    ELSE ClipsOf(has, k - 1) \o (IF has(inputs[k]) THEN all_clips[k] ELSE <<>>)

\* The object places the clip on the layer of index layer.
Places(o, clip, layer) ==
    /\ o.start = clip.start
    /\ o.dur = clip.dur
    /\ o.offset = clip.offset
    /\ o.speed = clip.speed
    /\ o.src = clip.src
    /\ o.layer = layer

\* C2: the video space has at most one layer, and layer 0 holds every
\* clip of every source with a video track exactly once, in source order.
C2_VideoLayerOnce ==
    Built =>
        LET clips == ClipsOf(LAMBDA inp : inp.videos > 0, Len(inputs))
        IN  /\ Len(v) <= 1
            /\ Len(clips) = 0 => Len(v) = 0
            /\ Len(clips) > 0 =>
                  /\ Len(v) = 1
                  /\ Len(v[1]) = Len(clips)
                  /\ \A k \in 1 .. Len(clips) : Places(v[1][k], clips[k], 0)

RECURSIVE MostAudios(_)
MostAudios(k) ==
    IF k = 0 THEN 0
    ELSE IF inputs[k].audios > MostAudios(k - 1)
         THEN inputs[k].audios ELSE MostAudios(k - 1)

\* C4: the audio space has as many layers as the largest audio track
\* count of a source; layer k holds, in source order, one object of layer
\* k for every clip of every source with at least k+1 audio tracks, and
\* nothing else.
C4_AudioLayers ==
    Built =>
        /\ Len(a) = MostAudios(Len(inputs))
        /\ \A k \in 1 .. Len(a) :
              LET clips == ClipsOf(LAMBDA inp : inp.audios >= k, Len(inputs))
              IN  /\ Len(a[k]) = Len(clips)
                  /\ \A n \in 1 .. Len(clips) : Places(a[k][n], clips[n], k - 1)

\* A source with two audio tracks and one with none, both with clips.
C4_Witness ==
    /\ Built
    /\ Len(inputs) = 2
    /\ inputs[1].audios = 2
    /\ inputs[2].audios = 0
    /\ Len(all_clips[1]) = 2
    /\ Len(all_clips[2]) > 0
    /\ Len(a) = 2
    /\ Len(a[2]) = 2

\* round(start + dur / speed) of a clip or media object.
RoundedEnd(o) == Round(o.start * Unit + (o.dur * Unit) \div o.speed)

MediaLayers == {v[k] : k \in 1 .. Len(v)} \cup {a[k] : k \in 1 .. Len(a)}

\* C10 as claimed: end is at least the effective end of every media
\* object of every layer.
C10_EndCoversEveryObject ==
    Built =>
        \A layer \in MediaLayers : \A k \in 1 .. Len(layer) :
            vars_end >= RoundedEnd(layer[k])

\* C10 (amended): end is at least the effective end of the last object
\* of every layer, and is the effective end (floored at 1) of the last
\* object of some layer, or 0 when every layer is empty.
C10_EndCoversLastObjects ==
    Built =>
        LET lasts == {layer[Len(layer)] : layer \in {l \in MediaLayers : Len(l) > 0}}
        IN  /\ \A o \in lasts : vars_end >= RoundedEnd(o)
            /\ lasts = {} => vars_end = 0
            /\ lasts # {} =>
                  \E o \in lasts :
                     vars_end = (IF RoundedEnd(o) > 1 THEN RoundedEnd(o) ELSE 1)

\* An object that is not the last of its layer ends after end.
C10_Witness ==
    /\ Built
    /\ \E layer \in MediaLayers : \E k \in 1 .. Len(layer) - 1 :
          RoundedEnd(layer[k]) > vars_end

-----------------------------------------------------------------------------
(* Properties of make_timeline. *)

RECURSIVE Carried(_)
\* The cursor after the first k sources: the sum of chunks_len over their
\* chunk sequences.
Carried(k) ==
    IF k = 0 THEN 0 ELSE Carried(k - 1) + ChunksLen(all_chunks[k])

\* C3 as claimed: the first clip of a source starts at the rounded
\* effective end of the last clip of the source before it.
C3_StartsAtEffectiveEnd ==
    \A k \in 1 .. Len(all_clips) - 1 :
        (Len(all_clips[k]) > 0 /\ Len(all_clips[k + 1]) > 0) =>
            all_clips[k + 1][1].start = RoundedEnd(all_clips[k][Len(all_clips[k])])

\* C3 (amended): the cursor starts at 0 and is carried across the sources
\* in source order: the first clip of a source starts at round(cursor),
\* the cursor being the sum of chunks_len of the sources before it.
C3_StartsAtCarriedCursor ==
    \A k \in 1 .. Len(all_clips) :
        Len(all_clips[k]) > 0 => all_clips[k][1].start = Round(Carried(k - 1))

\* Two sources with clips, the second not starting at the rounded
\* effective end of the last clip of the first.
C3_Witness ==
    /\ Len(all_clips) = 2
    /\ Len(all_clips[1]) > 0
    /\ Len(all_clips[2]) > 0
    /\ Carried(1) > 0
    /\ all_clips[2][1].start # RoundedEnd(all_clips[1][Len(all_clips[1])])

\* C8: with an entry of an unknown kind in args.pool, make_timeline does
\* not return a timeline (it fails with UnsupportedOverlayKind), and no
\* overlay layer is appended to the video space.
C8_UnknownKindFails ==
    (\E k \in 1 .. Len(pool) : pool[k] \notin OverlayKinds) =>
        /\ pc # "done"
        /\ \A k \in 1 .. Len(v) : \A n \in 1 .. Len(v[k]) : v[k][n].kind = "video"

=============================================================================
